---------------------------- MODULE Spec2Model ----------------------------
(***************************************************************************)
(* Batch "generate and store PDFs" edge function (src/unnamed/part_000).   *)
(* One request is handled from its arrival to its response.  Every call to *)
(* the database or to object storage is one step; the answers of those     *)
(* services are chosen nondeterministically.                                *)
(*                                                                         *)
(* Strings built by template literals are modelled as tuples of their      *)
(* parts; the empty string '' is the empty tuple, and null is Null.        *)
(***************************************************************************)
EXTENDS Naturals, Sequences, FiniteSets

\* Longest 'items' array of a request.
MaxItems == 2

\* Most calls of onSync followed on one card.
MaxCalls == 2

Null == <<>>
EmptyString == <<>>

----------------------------------------------------------------------------
\* Inputs

\* Values of item.id and item.type; "" is a missing (falsy) field.
Ids == {"", "d1", "d2"}
TypeNames == {"", "invoice", "invoices", "estimate", "purchase_order", "statement",
              "bogus"}

\* The entries an 'items' array may hold: null, a non-object, or an object.
\* The existing id "d1" comes with every type name; the missing id and the
\* id of no row ("d2") come with the missing type and with one type name.
ItemValues ==
  {[kind |-> "null", id |-> "", type |-> ""],
   [kind |-> "scalar", id |-> "", type |-> ""]}
  \cup {o \in [kind : {"object"}, id : Ids, type : TypeNames] :
          o.id # "d1" => o.type \in {"", "invoice"}}

ItemLists == UNION {[1..n -> ItemValues] : n \in 0..MaxItems}

\* Request bodies: absent, not JSON, JSON without an 'items' array, or an array.
Bodies ==
  {[kind |-> "none", items |-> <<>>],
   [kind |-> "badjson", items |-> <<>>],
   [kind |-> "notarray", items |-> <<>>]}
  \cup [kind : {"items"}, items : ItemLists]

Requests == [method : {"OPTIONS", "POST"}, envSet : BOOLEAN, body : Bodies]

----------------------------------------------------------------------------
\* shared-types / pdf-adapter (imported by the function)

\* The document types that have an entry in documentTypeConfig.
DocumentTypes == {"invoice", "estimate", "purchase_order"}

\* normalizeDocumentType: the canonical type of a type name.  It throws on a
\* name it does not know (normalizeThrows), and then returns nothing.  The name
\* "statement" stands for a type it knows and documentTypeConfig does not.
normalizeThrows(t) ==
  t \notin {"invoice", "invoices", "estimate", "purchase_order", "statement"}

normalizeDocumentType(t) ==
  CASE t \in {"invoice", "invoices"} -> "invoice"
    [] t = "estimate" -> "estimate"
    [] t = "purchase_order" -> "purchase_order"
    [] t = "statement" -> "statement"
    [] OTHER -> "unsupported"

\* documentTypeConfig[type].tableName
tableName(type) ==
  CASE type = "invoice" -> "gl_invoices"
    [] type = "estimate" -> "gl_estimates"
    [] type = "purchase_order" -> "gl_purchase_orders"

hasConfig(type) == type \in DocumentTypes

\* getStorageFolderPath / generateFileName: the object's path in the bucket.
getStorageFolderPath(type) ==
  CASE type = "invoice" -> "invoices"
    [] type = "estimate" -> "estimates"
    [] type = "purchase_order" -> "purchase-orders"

generateFileName(type, id) == <<type, id, ".pdf">>

ObjectPath(type, id) == <<getStorageFolderPath(type), generateFileName(type, id)>>

\* storage.getPublicUrl: the URL the storage service derives from a path.
PublicUrl(path) == <<"public", "documents", path>>

Tables == {tableName(t) : t \in DocumentTypes}

\* The tables the relation lookups read.
RelatedTables == {"gl_accounts", "gl_products"}

\* The rows before the request: in every table one row an item can name ("d1")
\* and one no item names ("d3").  A row of a document table is modelled by its
\* PDF-URL field, a row of another table by its content.
RowIds == {"d1", "d3"}
OldUrl == <<"old">>
InitialRows == [k \in (Tables \cup RelatedTables) \X RowIds |-> OldUrl]

----------------------------------------------------------------------------
VARIABLES
  request,   \* the request being served
  pc,        \* position of the handler
  i,         \* index of the item the loop is at
  results,   \* results: BatchPDFItemResult[]
  errors,    \* errors: string[]
  cur,       \* locals of the running processItem call
  db,        \* the rows of the tables (see InitialRows)
  storage,   \* paths of the objects in bucket 'documents'
  ops,       \* log of the pipeline stages performed
  response,  \* the response sent, NoResponse before
  card       \* the ActiveMappingCard component (ActiveMappingCard.tsx)

vars == <<request, pc, i, results, errors, cur, db, storage, ops, response, card>>

NoResponse == [status |-> 0, fields |-> {}, results |-> <<>>, errors |-> <<>>,
               success |-> FALSE, error |-> EmptyString]
NoAnswers == [account |-> "", lines |-> "", product |-> "", relation |-> ""]
NoCur == [type |-> "", answers |-> NoAnswers, account |-> "", lines |-> "",
          extra |-> "", path |-> Null, url |-> Null]

\* The card before it is mounted.
NoCard == [status |-> [connection_id |-> "", mapping_id |-> "", current_status |-> ""],
           isSyncing |-> FALSE, disabled |-> TRUE, calls |-> <<>>]

items == request.body.items

Init ==
  /\ request \in Requests
  /\ pc = "start"
  /\ i = 0
  /\ results = <<>>
  /\ errors = <<>>
  /\ cur = NoCur
  /\ db = InitialRows
  /\ storage = {}
  /\ ops = <<>>
  /\ response = NoResponse
  /\ card = NoCard

----------------------------------------------------------------------------
\* Helpers of the handler

\* item?.id || 'unknown' and item?.type || 'unknown'
OrUnknown(v) == IF v = "" THEN "unknown" ELSE v

InvalidItem_NoIdCheck(item) == item.kind # "object" \/ item.type = ""

\* !item || typeof item !== 'object' || !item.id || !item.type
InvalidItem(item) == item.kind # "object" \/ item.id = "" \/ item.type = ""

Failure(id, type, error) ==
  [id |-> id, type |-> type, success |-> FALSE, error |-> error, url |-> Null]

\* One stage of the pipeline (an external call, or the rendering), as the log
\* records it: the item it was made for, the number of results collected when
\* it was made, and its outcome.
Op(name, ok, arg) ==
  [idx |-> i, at |-> Len(results), op |-> name, ok |-> ok, arg |-> arg]

\* processItem returned `result`: the handler pushes it, records the error of a
\* failed one, and the loop moves to the next item.
ItemErrors(result) ==
  IF result.success THEN errors
  ELSE Append(errors, <<"Error processing", result.type, result.id, result.error>>)

FinishItem_AbortOnFailure(result) ==
  /\ results' = Append(results, result)
  /\ errors' = ItemErrors(result)
  /\ i' = IF result.success THEN i + 1 ELSE Len(items) + 1
  /\ pc' = "loop"
  /\ cur' = NoCur

FinishItem_NotAwaited(result) ==
  /\ results' = results
  /\ errors' = errors
  /\ i' = i + 1
  /\ pc' = "loop"
  /\ cur' = NoCur

FinishItem(result) ==
  /\ results' = Append(results, result)
  /\ errors' = ItemErrors(result)
  /\ i' = i + 1
  /\ pc' = "loop"
  /\ cur' = NoCur

----------------------------------------------------------------------------
\* The handler

\* CORS preflight
Preflight ==
  /\ pc = "start"
  /\ request.method = "OPTIONS"
  /\ response' = [NoResponse EXCEPT !.status = 200]
  /\ pc' = "done"
  /\ UNCHANGED <<card, request, i, results, errors, cur, db, storage, ops>>

\* The message of the error the handler's outer try block throws, or Null.
TopLevelError(req) ==
  CASE ~req.envSet ->
         <<"Missing environment variables SUPABASE_URL or SUPABASE_SERVICE_ROLE_KEY">>
    [] req.envSet /\ req.body.kind = "none" -> <<"Request has no body.">>
    [] req.envSet /\ req.body.kind = "badjson" -> <<"Unexpected token in JSON">>
    [] req.envSet /\ req.body.kind = "notarray" ->
         <<"Request body must contain an 'items' array.">>
    [] OTHER -> Null

ErrorResponse_Status200(msg) ==
  [NoResponse EXCEPT !.status = 200, !.fields = {"error", "success"},
                     !.error = msg, !.success = FALSE]

ErrorResponse(msg) ==
  [NoResponse EXCEPT !.status = 500, !.fields = {"error", "success"},
                     !.error = msg, !.success = FALSE]

RejectRequest ==
  /\ pc = "start"
  /\ request.method # "OPTIONS"
  /\ TopLevelError(request) # Null
  /\ response' = ErrorResponse(TopLevelError(request))
  /\ pc' = "done"
  /\ UNCHANGED <<card, request, i, results, errors, cur, db, storage, ops>>

EmptyResponse == [NoResponse EXCEPT !.status = 200, !.fields = {"results"}]

RespondEmpty ==
  /\ pc = "start"
  /\ request.method # "OPTIONS"
  /\ TopLevelError(request) = Null
  /\ Len(items) = 0
  /\ response' = EmptyResponse
  /\ pc' = "done"
  /\ UNCHANGED <<card, request, i, results, errors, cur, db, storage, ops>>

BeginBatch ==
  /\ pc = "start"
  /\ request.method # "OPTIONS"
  /\ TopLevelError(request) = Null
  /\ Len(items) > 0
  /\ i' = 1
  /\ pc' = "loop"
  /\ UNCHANGED <<card, request, results, errors, cur, db, storage, ops, response>>

\* The validation branch of the loop body: push a failure and continue.
InvalidResult(item) ==
  Failure(OrUnknown(item.id), OrUnknown(item.type),
          <<"Invalid item format (missing id or type)">>)

SkipInvalidItem ==
  /\ pc = "loop"
  /\ i <= Len(items)
  /\ InvalidItem(items[i])
  /\ results' = Append(results, InvalidResult(items[i]))
  /\ i' = i + 1
  /\ UNCHANGED <<card, request, pc, errors, cur, db, storage, ops, response>>

\* An exception that escapes processItem (its logging and result construction
\* run outside its try block) lands in the loop body's catch block.
CriticalResult(item, msg) ==
  Failure(OrUnknown(item.id), OrUnknown(item.type),
          IF msg = EmptyString THEN <<"Critical processing error">> ELSE msg)

ItemThrows ==
  /\ pc = "loop"
  /\ i <= Len(items)
  /\ ~InvalidItem(items[i])
  /\ \E msg \in {EmptyString, <<"internal error">>} :
       /\ results' = Append(results, CriticalResult(items[i], msg))
       /\ errors' = Append(errors, <<"Critical error:", msg>>)
  /\ i' = i + 1
  /\ UNCHANGED <<card, request, pc, cur, db, storage, ops, response>>

\* processItem, step 1: normalize the type.  A throw is caught by processItem's
\* own catch block, which returns the default failure result with the message.
StartItem_FallsBackToInvoice ==
  /\ pc = "loop"
  /\ i <= Len(items)
  /\ ~InvalidItem(items[i])
  /\ cur' = [NoCur EXCEPT !.type = IF normalizeThrows(items[i].type) THEN "invoice"
                                   ELSE normalizeDocumentType(items[i].type)]
  /\ pc' = "fetch"
  /\ UNCHANGED <<card, request, i, results, errors, db, storage, ops, response>>

StartItem ==
  /\ pc = "loop"
  /\ i <= Len(items)
  /\ ~InvalidItem(items[i])
  /\ IF normalizeThrows(items[i].type)
     THEN FinishItem(Failure(items[i].id, items[i].type,
                             <<"Unsupported document type:", items[i].type>>))
     ELSE /\ cur' = [NoCur EXCEPT !.type = normalizeDocumentType(items[i].type)]
          /\ pc' = "fetch"
          /\ UNCHANGED <<i, results, errors>>
  /\ UNCHANGED <<card, request, db, storage, ops, response>>

\* fetchDocumentWithRelations, step 1: the main document.  A missing
\* configuration, a database error and an empty answer all end in its catch
\* block, which returns null; processItem then returns a failure.
FetchFailed == Failure(items[i].id, cur.type,
                       <<"Failed to fetch document data for", cur.type, items[i].id>>)

RowKey == <<tableName(cur.type), items[i].id>>

fetchThrows_NoEmptyCheck(fetchError, key) == fetchError

\* if (fetchError) throw ...; if (!documentData) throw ...
fetchThrows(fetchError, key) == fetchError \/ key \notin DOMAIN db

FetchDocument ==
  /\ pc = "fetch"
  /\ IF ~hasConfig(cur.type)
     THEN FinishItem(FetchFailed) /\ UNCHANGED ops
     ELSE \E fetchError \in BOOLEAN :
            /\ ops' = Append(ops, Op("fetch", ~fetchError, RowKey))
            /\ IF fetchThrows(fetchError, RowKey)
               THEN FinishItem(FetchFailed)
               ELSE pc' = "relations" /\ UNCHANGED <<i, results, errors, cur>>
  /\ UNCHANGED <<card, request, db, storage, response>>

\* fetchDocumentWithRelations, steps 2 to 5: account, line items with their
\* products, additional relations.  None of their errors is thrown.
AccountAnswers == {"error", "none", "found"}
LinesAnswers == {"error", "empty", "rows"}
ProductAnswers == {"error", "none", "found"}
RelationAnswers == {"unconfigured", "error", "rows"}

\* The product of a line is looked up for the lines of invoices and estimates;
\* the lines of a purchase order are its products themselves.
ProductAsked(type, ln) == ln = "rows" /\ type # "purchase_order"

\* accountData: the account when the lookup found one, else null.
accountData(acc) == IF acc = "found" THEN "found" ELSE "null"

\* lineItems: the rows when the lookup answered with rows, each with its
\* product (gl_products) when that lookup found one; else the empty list.
lineItems(type, ln, prod) ==
  CASE ln # "rows" -> "empty"
    [] ln = "rows" /\ ProductAsked(type, ln) /\ prod = "found" -> "rowsWithProducts"
    [] OTHER -> "rows"

\* additionalData: the related rows when a configured relation answered.
additionalData(rel) == IF rel = "rows" THEN "rows" ELSE "absent"

FetchRelations_AccountErrorFatal ==
  /\ pc = "relations"
  /\ \E acc \in AccountAnswers, ln \in LinesAnswers,
        prod \in ProductAnswers, rel \in RelationAnswers :
       /\ ProductAsked(cur.type, ln) \/ prod = "none"
       /\ IF acc = "error"
          THEN FinishItem(FetchFailed)
          ELSE /\ cur' = [cur EXCEPT
                    !.answers = [account |-> acc, lines |-> ln,
                                 product |-> prod, relation |-> rel],
                    !.account = accountData(acc),
                    !.lines = lineItems(cur.type, ln, prod),
                    !.extra = additionalData(rel)]
               /\ pc' = "render"
               /\ UNCHANGED <<i, results, errors>>
  /\ UNCHANGED <<card, request, db, storage, ops, response>>

FetchRelations ==
  /\ pc = "relations"
  /\ \E acc \in AccountAnswers, ln \in LinesAnswers,
        prod \in ProductAnswers, rel \in RelationAnswers :
       /\ ProductAsked(cur.type, ln) \/ prod = "none"
       /\ cur' = [cur EXCEPT
            !.answers = [account |-> acc, lines |-> ln,
                         product |-> prod, relation |-> rel],
            !.account = accountData(acc),
            !.lines = lineItems(cur.type, ln, prod),
            !.extra = additionalData(rel)]
  /\ pc' = "render"
  /\ UNCHANGED <<card, request, i, results, errors, db, storage, ops, response>>

\* generatePDF: null when adapting or rendering throws, else the bytes.  The
\* document data is last used for the file name built right after it.
RenderFailed == Failure(items[i].id, cur.type,
                        <<"Failed to generate PDF for", cur.type, items[i].id>>)

GeneratePDF_IgnoresFailure ==
  /\ pc = "render"
  /\ \E rendered \in BOOLEAN :
       /\ ops' = Append(ops, Op("render", rendered, cur.type))
       /\ cur' = [NoCur EXCEPT !.type = cur.type,
                                !.path = ObjectPath(cur.type, items[i].id)]
       /\ pc' = "upload"
       /\ UNCHANGED <<i, results, errors>>
  /\ UNCHANGED <<card, request, db, storage, response>>

GeneratePDF ==
  /\ pc = "render"
  /\ \E rendered \in BOOLEAN :
       /\ ops' = Append(ops, Op("render", rendered, cur.type))
       /\ IF rendered
          THEN /\ cur' = [NoCur EXCEPT !.type = cur.type,
                                     !.path = ObjectPath(cur.type, items[i].id)]
               /\ pc' = "upload"
               /\ UNCHANGED <<i, results, errors>>
          ELSE FinishItem(RenderFailed)
  /\ UNCHANGED <<card, request, db, storage, response>>

\* storePDF: upload (upsert), then the public URL; null when either fails.
StoreFailed == Failure(items[i].id, cur.type,
                       <<"Failed to store PDF for", cur.type, items[i].id>>)

UploadPDF_RetryOnce ==
  /\ pc = "upload"
  /\ \E uploadError \in BOOLEAN :
       /\ ops' = Append(ops, Op("upload", ~uploadError, cur.path))
       /\ IF uploadError
          THEN IF \E k \in DOMAIN ops : ops[k].idx = i /\ ops[k].op = "upload"
               THEN FinishItem(StoreFailed) /\ UNCHANGED storage
               ELSE UNCHANGED <<pc, i, results, errors, cur, storage>>
          ELSE /\ storage' = storage \cup {cur.path}
               /\ pc' = "geturl"
               /\ UNCHANGED <<i, results, errors, cur>>
  /\ UNCHANGED <<card, request, db, response>>

UploadPDF ==
  /\ pc = "upload"
  /\ \E uploadError \in BOOLEAN :
       /\ ops' = Append(ops, Op("upload", ~uploadError, cur.path))
       /\ IF uploadError
          THEN FinishItem(StoreFailed) /\ UNCHANGED storage
          ELSE /\ storage' = storage \cup {cur.path}
               /\ pc' = "geturl"
               /\ UNCHANGED <<i, results, errors, cur>>
  /\ UNCHANGED <<card, request, db, response>>

GetPublicUrl ==
  /\ pc = "geturl"
  /\ \E hasUrl \in BOOLEAN :
       /\ ops' = Append(ops, Op("publicUrl", hasUrl, cur.path))
       /\ IF hasUrl
          THEN /\ cur' = [cur EXCEPT !.url = PublicUrl(cur.path)]
               /\ pc' = "update"
               /\ UNCHANGED <<i, results, errors>>
          ELSE FinishItem(StoreFailed)
  /\ UNCHANGED <<card, request, db, storage, response>>

\* updateDatabaseWithPdfUrl: true unless the update answers with an error.
\* An update that matches no row changes nothing and is no error.
UpdateFailed ==
  Failure(items[i].id, cur.type,
          <<"Failed to update database with PDF URL for", cur.type, items[i].id>>)

Success_KeepsDefaultUrl ==
  [id |-> items[i].id, type |-> cur.type, success |-> TRUE,
   error |-> EmptyString, url |-> Null]

Success == [id |-> items[i].id, type |-> cur.type, success |-> TRUE,
            error |-> EmptyString, url |-> cur.url]

updateDatabaseWithPdfUrl_IgnoresError(updateError) == TRUE

updateDatabaseWithPdfUrl(updateError) == ~updateError

UpdateRow_RollsBackUpload ==
  /\ pc = "update"
  /\ \E updateError \in BOOLEAN :
       /\ ops' = Append(ops, Op("update", ~updateError, <<RowKey, cur.url>>))
       /\ db' = IF ~updateError /\ RowKey \in DOMAIN db
                THEN [db EXCEPT ![RowKey] = cur.url] ELSE db
       /\ storage' = IF updateError THEN storage \ {cur.path} ELSE storage
       /\ FinishItem(IF updateDatabaseWithPdfUrl(updateError)
                     THEN Success ELSE UpdateFailed)
  /\ UNCHANGED <<card, request, response>>

UpdateRow_NoIdFilter ==
  /\ pc = "update"
  /\ \E updateError \in BOOLEAN :
       /\ ops' = Append(ops, Op("update", ~updateError, <<RowKey, cur.url>>))
       /\ db' = IF ~updateError
                THEN [key \in DOMAIN db |->
                        IF key[1] = tableName(cur.type) THEN cur.url ELSE db[key]]
                ELSE db
       /\ FinishItem(IF updateDatabaseWithPdfUrl(updateError)
                     THEN Success ELSE UpdateFailed)
  /\ UNCHANGED <<card, request, storage, response>>

UpdateRow ==
  /\ pc = "update"
  /\ \E updateError \in BOOLEAN :
       /\ ops' = Append(ops, Op("update", ~updateError, <<RowKey, cur.url>>))
       /\ db' = IF ~updateError /\ RowKey \in DOMAIN db
                THEN [db EXCEPT ![RowKey] = cur.url] ELSE db
       /\ FinishItem(IF updateDatabaseWithPdfUrl(updateError)
                     THEN Success ELSE UpdateFailed)
  /\ UNCHANGED <<card, request, storage, response>>

\* After the loop: the batch response.
BatchResponse ==
  [NoResponse EXCEPT
     !.status = 200,
     !.fields = {"results", "success"} \cup (IF Len(errors) > 0 THEN {"errors"} ELSE {}),
     !.results = results,
     !.errors = errors,
     !.success = (Len(errors) = 0)]

Respond ==
  /\ pc = "loop"
  /\ i > Len(items)
  /\ response' = BatchResponse
  /\ pc' = "done"
  /\ UNCHANGED <<card, request, i, results, errors, cur, db, storage, ops>>

Next ==
  \/ Preflight
  \/ RejectRequest
  \/ RespondEmpty
  \/ BeginBatch
  \/ SkipInvalidItem
  \/ ItemThrows
  \/ StartItem
  \/ FetchDocument
  \/ FetchRelations
  \/ GeneratePDF
  \/ UploadPDF
  \/ GetPublicUrl
  \/ UpdateRow
  \/ Respond

Spec == Init /\ [][Next]_vars

----------------------------------------------------------------------------
\* ActiveMappingCard (src/src/components/sync/overview/ActiveMappingCard.tsx)

\* The props: status (a GlSyncStatus; "" is a missing field) and isSyncing.
ConnectionIds == {"", "c1", "c2"}
MappingIds == {"", "m1"}
StatusNames == {"", "processing", "completed"}
Statuses == [connection_id : ConnectionIds, mapping_id : MappingIds,
             current_status : StatusNames]

\* status.current_status || 'not_synced'
currentStatus(status) ==
  IF status.current_status = "" THEN "not_synced" ELSE status.current_status

isDisabled_IgnoresIds(status, isSyncing) ==
  isSyncing \/ currentStatus(status) = "processing"

isDisabled(status, isSyncing) ==
  \/ isSyncing
  \/ currentStatus(status) = "processing"
  \/ status.connection_id = ""
  \/ status.mapping_id = ""

\* handleSync: the calls of onSync it makes, each with its two arguments and
\* the status it was made under.
handleSync(status) ==
  IF status.connection_id # "" /\ status.mapping_id # ""
  THEN <<[args |-> <<status.connection_id, status.mapping_id>>, status |-> status]>>
  ELSE <<>>

\* The component rendered with the given props.
Render(status, isSyncing, calls) ==
  [status |-> status, isSyncing |-> isSyncing,
   disabled |-> isDisabled(status, isSyncing), calls |-> calls]

CardInit ==
  /\ request = [method |-> "OPTIONS", envSet |-> FALSE,
                body |-> [kind |-> "none", items |-> <<>>]]
  /\ pc = "card"
  /\ i = 0
  /\ results = <<>>
  /\ errors = <<>>
  /\ cur = NoCur
  /\ db = InitialRows
  /\ storage = {}
  /\ ops = <<>>
  /\ response = NoResponse
  /\ \E status \in Statuses, isSyncing \in BOOLEAN :
       card = Render(status, isSyncing, <<>>)

\* The parent renders the card again with new props.
SetProps ==
  /\ \E status \in Statuses, isSyncing \in BOOLEAN :
       card' = Render(status, isSyncing, card.calls)
  /\ UNCHANGED <<request, pc, i, results, errors, cur, db, storage, ops, response>>

\* A click on the Sync button: a disabled button dispatches no click.
ClickSync ==
  /\ ~card.disabled
  /\ Len(card.calls) < MaxCalls
  /\ card' = [card EXCEPT !.calls = card.calls \o handleSync(card.status)]
  /\ UNCHANGED <<request, pc, i, results, errors, cur, db, storage, ops, response>>

NextCard ==
  \/ SetProps
  \/ ClickSync

SpecCard == CardInit /\ [][NextCard]_vars

----------------------------------------------------------------------------
\* Vocabulary of the properties

Done == pc = "done"

\* The request reached the item loop or the empty branch: it is a POST whose
\* environment is set and whose body carries an 'items' array.
CarriesItems ==
  /\ request.method = "POST"
  /\ request.envSet
  /\ request.body.kind = "items"

\* The request fails before its items are looked at.
FailsAtTopLevel ==
  /\ request.method = "POST"
  /\ ~request.envSet \/ request.body.kind \in {"none", "badjson", "notarray"}

\* A malformed item: null, not an object, or without id or type.
Malformed(item) == item.kind # "object" \/ item.id = "" \/ item.type = ""

OpsOf(k) == {j \in DOMAIN ops : ops[j].idx = k}
OpsOfKind(k, name) == {j \in OpsOf(k) : ops[j].op = name}
Writes(k) == OpsOfKind(k, "upload") \cup OpsOfKind(k, "update")

FailedResults(rs) == SelectSeq(rs, LAMBDA r : ~r.success)

\* Message m of 'errors' is the one recorded for the failed result r.
MessageOf(r, m) ==
  \/ m = <<"Error processing", r.type, r.id, r.error>>
  \/ /\ m[1] = "Critical error:"
     /\ \/ m[2] = r.error
        \/ m[2] = EmptyString /\ r.error = <<"Critical processing error">>

\* Nothing was read from or written to the database and the storage.
NothingTouched == ops = <<>> /\ db = InitialRows /\ storage = {}

----------------------------------------------------------------------------
\* C1: in the response to a request that carries an 'items' array, the
\* batch-level success field is false if and only if at least one entry of
\* results has success = false.
C1_SuccessFalseIffAnItemFailed ==
  (Done /\ CarriesItems) =>
    (("success" \in response.fields /\ ~response.success)
       <=> (\E k \in DOMAIN response.results : ~response.results[k].success))

\* C2: an empty 'items' array is answered with results = [] and success = true,
\* and nothing is fetched, uploaded or updated.
C2_EmptyItemsSucceed ==
  (Done /\ CarriesItems /\ Len(items) = 0) =>
    /\ "results" \in response.fields
    /\ response.results = <<>>
    /\ "success" \in response.fields
    /\ response.success
    /\ NothingTouched

\* C3: a malformed item gets a result with success = false and url = null, no
\* external operation is performed for it, the loop goes on to the next item,
\* and the request is answered with the normal batch response.
C3_MalformedItemFailsQuietly ==
  /\ \A k \in DOMAIN results :
       Malformed(items[k]) =>
         /\ ~results[k].success
         /\ results[k].url = Null
         /\ OpsOf(k) = {}
  /\ \A k \in 1..Len(items) : Malformed(items[k]) => OpsOf(k) = {}
  /\ (Done /\ CarriesItems /\ Len(items) > 0) =>
       /\ response.status = 200
       /\ {"results", "success"} \subseteq response.fields
       /\ Len(response.results) = Len(items)

C3_Witness ==
  /\ Done
  /\ CarriesItems
  /\ Len(items) = 2
  /\ Malformed(items[1])
  /\ ~response.results[1].success
  /\ response.results[2].success

\* C4: an item whose main-document lookup answers with a database error or with
\* no row gets a failure result with url = null and the message naming the
\* document, and neither an upload nor a row update is performed for it.
C4_UnresolvedDocumentFails ==
  \A j \in DOMAIN ops :
    (ops[j].op = "fetch" /\ (~ops[j].ok \/ ops[j].arg \notin DOMAIN InitialRows)) =>
      /\ Writes(ops[j].idx) = {}
      /\ OpsOfKind(ops[j].idx, "publicUrl") = {}
      /\ ops[j].idx \in DOMAIN results
      /\ LET r == results[ops[j].idx] IN
           /\ ~r.success
           /\ r.url = Null
           /\ r.error # EmptyString
           /\ r.error = <<"Failed to fetch document data for", r.type, r.id>>
           /\ r.id = items[ops[j].idx].id

C4_Witness ==
  /\ Done
  /\ CarriesItems
  /\ \E j \in DOMAIN ops : ops[j].op = "fetch" /\ ~ops[j].ok
  /\ \E j \in DOMAIN ops :
       ops[j].op = "fetch" /\ ops[j].ok /\ ops[j].arg \notin DOMAIN InitialRows

\* C5: a result with success = true has a non-null url, the PDF was uploaded to
\* storage, and the PDF-URL field of the row with the item's id in the item's
\* table holds exactly that url.
C5_SuccessMeansStoredAndLinked ==
  \A k \in DOMAIN results :
    results[k].success =>
      LET r == results[k]
          row == <<tableName(r.type), r.id>>
      IN /\ r.url # Null
         /\ r.id = items[k].id
         /\ \E j \in OpsOfKind(k, "upload") :
              ops[j].ok /\ ops[j].arg \in storage /\ PublicUrl(ops[j].arg) = r.url
         /\ \E j \in OpsOfKind(k, "update") : ops[j].ok /\ ops[j].arg = <<row, r.url>>
         /\ row \in DOMAIN db
         /\ db[row] = r.url

C5_Witness ==
  /\ Done
  /\ CarriesItems
  /\ \E k \in DOMAIN response.results :
       /\ response.results[k].success
       /\ db[<<tableName(response.results[k].type), items[k].id>>] # OldUrl

\* C6: the results of a non-empty batch have one entry per item, the i-th for
\* the i-th item, whichever items are malformed, fail or throw.
C6_OneResultPerItem ==
  /\ \A k \in DOMAIN results :
       /\ k \in DOMAIN items
       /\ results[k].id = (IF items[k].id = "" THEN "unknown" ELSE items[k].id)
  /\ (pc \in {"fetch", "relations", "render", "upload", "geturl", "update"})
       => Len(results) = i - 1
  /\ (Done /\ CarriesItems /\ Len(items) > 0) =>
       /\ response.results = results
       /\ Len(response.results) = Len(items)

C6_Witness ==
  /\ Done
  /\ CarriesItems
  /\ Len(items) = 2
  /\ ~response.results[1].success
  /\ OpsOf(1) # {}
  /\ response.results[2].success

\* C7: items are processed one after the other: every external operation of
\* item k is made when exactly k - 1 results have been appended, and the
\* operations of the log are grouped by item, in input order.
C7_StrictlySequential ==
  /\ \A j \in DOMAIN ops : ops[j].at = ops[j].idx - 1
  /\ \A j, l \in DOMAIN ops : j < l => ops[j].idx <= ops[l].idx

C7_Witness ==
  /\ Done
  /\ CarriesItems
  /\ Cardinality(OpsOf(1)) >= 2
  /\ Cardinality(OpsOf(2)) >= 2

\* C8: a request that fails at the top level (environment not set, no body,
\* body that is not JSON or whose 'items' is no array) is answered with one
\* failure response (status 500, success = false, an error message, no
\* results), and no item is processed.
C8_TopLevelErrorIsOneFailure ==
  FailsAtTopLevel =>
    /\ NothingTouched
    /\ results = <<>>
    /\ Done =>
         /\ response.status = 500
         /\ response.fields = {"error", "success"}
         /\ ~response.success
         /\ response.error # EmptyString

C8_Witness ==
  /\ Done
  /\ FailsAtTopLevel
  /\ request.envSet
  /\ request.body.kind = "notarray"

\* C9: for each occurrence of an item, the main-document fetch, the upload, the
\* public-URL lookup and the row update are each attempted at most once.
C9_NoRetry ==
  \A k \in 1..Len(items) :
    \A name \in {"fetch", "upload", "publicUrl", "update"} :
      Cardinality(OpsOfKind(k, name)) <= 1

C9_Witness ==
  /\ Done
  /\ CarriesItems
  /\ \E j \in DOMAIN ops : ops[j].op = "upload" /\ ~ops[j].ok
  /\ \E j \in DOMAIN ops : ops[j].op = "update" /\ ~ops[j].ok

\* C10: the errors field of the batch response is present exactly when some
\* result failed, and then holds one message per failed result, in input order.
C10_ErrorsListEveryFailure ==
  (Done /\ CarriesItems /\ Len(items) > 0) =>
    LET failed == FailedResults(response.results) IN
      /\ ("errors" \in response.fields) <=> (Len(failed) > 0)
      /\ ("errors" \in response.fields) =>
           /\ Len(response.errors) = Len(failed)
           /\ \A k \in DOMAIN failed : MessageOf(failed[k], response.errors[k])


\* The stages of item k, in the order they were performed.
StagesOf(k) == SelectSeq(ops, LAMBDA o : o.idx = k)

PipelineOrder == <<"fetch", "render", "upload", "publicUrl", "update">>

\* C11: the stages of an item run in the order document fetch, render, upload
\* (with its public URL), row update, after the type was normalized; a stage
\* runs only if every stage before it succeeded, so an upload follows a
\* successful fetch and render, and a row update follows a returned URL.
C11_StagesInOrder ==
  \A k \in 1..Len(items) :
    LET st == StagesOf(k) IN
      /\ Len(st) <= Len(PipelineOrder)
      /\ Len(st) > 0 => ~Malformed(items[k]) /\ ~normalizeThrows(items[k].type)
      /\ \A n \in DOMAIN st :
           /\ st[n].op = PipelineOrder[n]
           /\ n < Len(st) => st[n].ok
      /\ Len(st) > 1 => st[1].arg \in DOMAIN InitialRows
      /\ (k \in DOMAIN results /\ Len(st) > 0 /\ ~st[Len(st)].ok) => ~results[k].success
      /\ (k \in DOMAIN results /\ results[k].success) =>
           Len(st) = Len(PipelineOrder) /\ st[Len(st)].ok

C11_Witness ==
  /\ Done
  /\ CarriesItems
  /\ Len(items) = 2
  /\ Len(StagesOf(1)) = 2 /\ ~StagesOf(1)[2].ok
  /\ Len(StagesOf(2)) = 5 /\ response.results[2].success

\* C12: every entry of results is either a success with a url and the empty
\* error, or a failure with url = null and a non-empty error, whichever branch
\* produced it (validation, a failed stage, either catch block).
C12_ResultsWellFormed ==
  \A k \in DOMAIN results :
    /\ results[k].success => results[k].url # Null /\ results[k].error = EmptyString
    /\ ~results[k].success => results[k].url = Null /\ results[k].error # EmptyString

C12_Witness ==
  /\ Done
  /\ CarriesItems
  /\ Len(items) = 2
  /\ response.results[1].error = <<"Critical processing error">>
  /\ response.results[2].success

\* The step is a row update that answered with an error.
UpdateFails ==
  /\ pc = "update"
  /\ Len(ops') = Len(ops) + 1
  /\ ops'[Len(ops')].op = "update"
  /\ ~ops'[Len(ops')].ok

\* C13: when the row update fails after a successful upload, the item's result
\* is a failure with url = null and nothing is rolled back: the uploaded object
\* stays in storage and the row keeps the value it had before the update.
C13_NoRollback ==
  [][UpdateFails =>
       /\ Len(results') = Len(results) + 1
       /\ ~results'[i].success
       /\ results'[i].url = Null
       /\ cur.path \in storage
       /\ storage' = storage
       /\ db' = db]_vars

C13_Witness ==
  /\ Done
  /\ CarriesItems
  /\ \E j \in DOMAIN ops :
       /\ ops[j].op = "update"
       /\ ~ops[j].ok
       /\ ~response.results[ops[j].idx].success
       /\ db[ops[j].arg[1]] = OldUrl
       /\ \E l \in OpsOfKind(ops[j].idx, "upload") : ops[l].ok /\ ops[l].arg \in storage

\* C14: after the main document was found, no answer of the lookups of the
\* account, the line items, a line's product or an additional relation fails
\* the item: the pipeline goes on to rendering, with account = null after an
\* error or an empty answer, with the empty line list after an error or an
\* empty answer, with lines without product after a failed or empty product
\* lookup, and without the relation's rows after its error.
C14_OnlyMainLookupIsFatal ==
  [][pc = "relations" =>
       /\ pc' = "render"
       /\ results' = results /\ errors' = errors /\ i' = i
       /\ LET a == cur'.answers IN
            /\ a.account \in {"error", "none"} => cur'.account = "null"
            /\ a.lines \in {"error", "empty"} => cur'.lines = "empty"
            /\ (a.lines = "rows" /\ a.product \in {"error", "none"}) => cur'.lines = "rows"
            /\ a.relation = "error" => cur'.extra = "absent"]_vars

C14_Witness ==
  /\ pc = "render"
  /\ cur.answers.account = "error"
  /\ cur.answers.lines = "rows"
  /\ cur.answers.product = "error"
  /\ cur.answers.relation = "error"
  /\ cur.account = "null"

\* Item k names a document: it is well formed and its type has a configuration.
NamesDocument(k) ==
  /\ ~Malformed(items[k])
  /\ ~normalizeThrows(items[k].type)
  /\ hasConfig(normalizeDocumentType(items[k].type))

DocumentRow(k) == <<tableName(normalizeDocumentType(items[k].type)), items[k].id>>
DocumentObject(k) == ObjectPath(normalizeDocumentType(items[k].type), items[k].id)

\* C15: the batch writes nothing but its items' own documents: a row that
\* differs from its value before the request is the row with an item's id in
\* the table of the item's type and holds the URL of that item's PDF; every
\* object in storage is the one object of an item, in the folder of the
\* item's type; no row appears or disappears.
C15_WritesOnlyOwnDocument ==
  /\ DOMAIN db = DOMAIN InitialRows
  /\ \A key \in DOMAIN db :
       db[key] # InitialRows[key] =>
         \E k \in 1..Len(items) :
           /\ NamesDocument(k)
           /\ key = DocumentRow(k)
           /\ db[key] = PublicUrl(DocumentObject(k))
  /\ \A p \in storage :
       \E k \in 1..Len(items) :
         /\ NamesDocument(k)
         /\ p = DocumentObject(k)
         /\ p[1] = getStorageFolderPath(normalizeDocumentType(items[k].type))
  /\ \A j \in DOMAIN ops :
       /\ ops[j].op = "upload" =>
            NamesDocument(ops[j].idx) /\ ops[j].arg = DocumentObject(ops[j].idx)
       /\ ops[j].op = "update" =>
            NamesDocument(ops[j].idx) /\ ops[j].arg[1] = DocumentRow(ops[j].idx)

C15_Witness ==
  /\ Done
  /\ CarriesItems
  /\ Len(items) = 2
  /\ db[<<"gl_invoices", "d1">>] # OldUrl
  /\ db[<<"gl_estimates", "d1">>] # OldUrl
  /\ db[<<"gl_purchase_orders", "d1">>] = OldUrl
  /\ Cardinality(storage) = 2

\* Item k is well formed and names no configured type: normalizing its type
\* throws, or the normalized type has no entry in documentTypeConfig.
NamesNoConfiguredType(k) ==
  /\ ~Malformed(items[k])
  /\ \/ normalizeThrows(items[k].type)
     \/ ~hasConfig(normalizeDocumentType(items[k].type))

\* C16: an item whose type cannot be normalized or has no configuration gets a
\* failure result with a non-empty error; no document table is read, nothing
\* is uploaded and no row is updated for it; the other items of the batch
\* still get their results.
C16_UnconfiguredTypeFails ==
  /\ \A k \in 1..Len(items) :
       NamesNoConfiguredType(k) =>
         /\ OpsOf(k) = {}
         /\ k \in DOMAIN results =>
              /\ ~results[k].success
              /\ results[k].error # EmptyString
              /\ results[k].url = Null
         /\ k < i => k \in DOMAIN results
  /\ (Done /\ CarriesItems /\ Len(items) > 0) => Len(response.results) = Len(items)

C16_Witness ==
  /\ Done
  /\ CarriesItems
  /\ Len(items) = 2
  /\ items[1].type = "statement"
  /\ response.results[1].error =
       <<"Failed to fetch document data for", "statement", items[1].id>>
  /\ response.results[2].success

\* C17: onSync is called only under a status that has both connection_id and
\* mapping_id, and with exactly these two values; the Sync button is disabled
\* whenever isSyncing is true, the current status is 'processing', or one of
\* the two ids is missing.
C17_SyncOnlyWithBothIds ==
  /\ \A n \in DOMAIN card.calls :
       LET c == card.calls[n] IN
         /\ c.status.connection_id # ""
         /\ c.status.mapping_id # ""
         /\ c.args = <<c.status.connection_id, c.status.mapping_id>>
  /\ (\/ card.isSyncing
      \/ card.status.current_status = "processing"
      \/ card.status.connection_id = ""
      \/ card.status.mapping_id = "") => card.disabled

C17_Witness ==
  /\ Len(card.calls) = 2
  /\ card.calls[1].args = <<"c1", "m1">>
  /\ card.calls[2].args = <<"c2", "m1">>
  /\ card.status.connection_id = ""
  /\ card.disabled

=============================================================================
